---- MODULE Spec2Model ----
(***************************************************************************)
(* Certificate lifecycle of go-acme: ACME.CreateConfig (acme.go), the      *)
(* DomainCertificate data model (types), the storage backends and the two  *)
(* background goroutines that renew the certificate.                       *)
(***************************************************************************)
EXTENDS Integers, Sequences, FiniteSets, TLC

\* ------------------------------------------------------------------ bounds
\* number of 24 hour periods the clock may advance
MaxDay == 2
\* lifetime, in days, of a certificate issued by the authority
Validity == 90

\* ------------------------------------------------------- program constants
\* acme.go:66  time.Now().Add(24*7*time.Hour)
RenewDays == 7

MainDomain == "a.example"
SanDomain == "b.example"
OtherDomain == "c.example"

\* ------------------------------------------------------------ Go pointers
\* A nil pointer is the empty sequence, a non-nil one a one-element sequence.
None == <<>>
Some(x) == <<x>>
IsNil(p) == p = <<>>
Deref(p) == p[1]

\* ------------------------------------------------------------ byte values
\* A DER segment of a chain: ok says whether x509.ParseCertificate accepts it.
Segment(sn, notAfter, pub) == [ok |-> TRUE, sn |-> sn, notAfter |-> notAfter, pub |-> pub]
BadSegment == [ok |-> FALSE, sn |-> 0, notAfter |-> 0, pub |-> 0]

\* Certificate bytes: the PEM blocks they hold; non-empty bytes may hold none.
CertBytes(chain) == [empty |-> FALSE, chain |-> chain]
EmptyCert == [empty |-> TRUE, chain |-> <<>>]
\* Private key bytes: key = 0 when the bytes hold no parsable key.
KeyBytes(k) == [empty |-> FALSE, key |-> k]
EmptyKey == [empty |-> TRUE, key |-> 0]
GarbageKey == [empty |-> FALSE, key |-> 0]

\* types.Certificate
Certificate(domain, key, cert) == [Domain |-> domain, PrivateKey |-> key, Cert |-> cert]
EmptyCertificate == Certificate("", EmptyKey, EmptyCert)

\* types.Domain
Domain(main, sans) == [Main |-> main, SANs |-> sans]

\* tls.X509KeyPair(certPEMBlock, keyPEMBlock): the pair parses when the bytes
\* hold a certificate block, the leaf parses, and the key parses and is the
\* leaf's key.
X509KeyPairOkMutEmpty(cert, key) ==
    \/ Len(cert.chain) = 0
    \/ /\ key.key /= 0
       /\ cert.chain[1].ok
       /\ cert.chain[1].pub = key.key
X509KeyPairOk(cert, key) ==
    /\ Len(cert.chain) > 0
    /\ key.key /= 0
    /\ cert.chain[1].ok
    /\ cert.chain[1].pub = key.key
X509KeyPair(cert, key) == [Certificate |-> cert.chain, PrivateKey |-> key.key]

\* needsUpdate(cert) at time t (days)
needsUpdateMutInclusive(cert, t) ==
    \E i \in 1..Len(cert.Certificate) :
        \/ ~cert.Certificate[i].ok
        \/ cert.Certificate[i].notAfter <= t + RenewDays
needsUpdateMutLeafOnly(cert, t) ==
    /\ Len(cert.Certificate) > 0
    /\ \/ ~cert.Certificate[1].ok
       \/ cert.Certificate[1].notAfter < t + RenewDays
needsUpdate(cert, t) ==
    \E i \in 1..Len(cert.Certificate) :
        \/ ~cert.Certificate[i].ok
        \/ cert.Certificate[i].notAfter < t + RenewDays

\* ------------------------------------------------- the validation authority
\* What client.ObtainCertificate / client.RenewCertificate hand back: the
\* certificate with serial sn issued at day t, bundled with the issuer's
\* certificate (bundleCA), or bytes from which no key pair can be derived.
IssuedShapes == {"good", "corrupt"}
Issued(sn, t, domain, shape) ==
    Certificate(domain,
                IF shape = "good" THEN KeyBytes(sn) ELSE GarbageKey,
                CertBytes(<<Segment(sn, t + Validity, sn), Segment(0, t + 2 * Validity, 0)>>))

\* ------------------------------------------------------------- the stores
\* A stored account file, as json.MarshalIndent writes it: TLSCert is
\* tagged json:"-" and is not part of it.
File(reg, dcert) == [Registration |-> reg, DomainsCertificate |-> dcert]
StoredDC(c, d) == [Certificate |-> c, Domain |-> d]
StoredCert(notAfter) ==
    Certificate(MainDomain, KeyBytes(1),
                CertBytes(<<Segment(1, notAfter, 1), Segment(0, notAfter + Validity, 0)>>))
StoredDomain == Domain(MainDomain, <<>>)
\* Files found at startup: written by an earlier run (certificate expiring in
\* 3 days, in exactly 7 days, in 30 days), or damaged since.
StoredFiles ==
    { File(TRUE, Some(StoredDC(Some(StoredCert(n)), Some(StoredDomain)))) : n \in {3, 7, 30} }
    \cup { File(TRUE, Some(StoredDC(Some(Certificate(MainDomain, GarbageKey, StoredCert(30).Cert)),
                                    Some(StoredDomain)))),
           File(TRUE, Some(StoredDC(Some(EmptyCertificate), Some(StoredDomain)))) }

Backends == {"fs", "s3", "null"}
BackendNames == {"", "null", "bogus"}
DNSProviders == {"route53", "bogus"}
KnownDNSProviders == {"route53"}

Configs ==
    [Domain : {None, Some(Domain("", <<>>)), Some(Domain(MainDomain, <<SanDomain>>))},
     SelfSigned : BOOLEAN,
     BackendName : BackendNames,
     DNSProvider : DNSProviders]

VARIABLES
    cfg,        \* the ACME struct's configuration fields
    pc,         \* position of CreateConfig
    ret,        \* CreateConfig's outcome
    backend,    \* a.backend
    store,      \* the durable file for each domain key
    account,    \* the *types.Account of CreateConfig
    dc,         \* the DomainCertificate object account.DomainsCertificate points to
    needRegister,
    tlsHeap,    \* every tls.Certificate object allocated so far
    tlsConfig,  \* the caller's tls.Config
    now,        \* time.Now(), in days
    issued,     \* serial of the last certificate issued
    calls,      \* the calls CreateConfig made, in order
    domains,    \* retrieveCertificate's domain list
    certificate, \* retrieveCertificate's certificate
    bg,         \* the catch-up goroutine and the ticker goroutine
    tickerC,    \* ticks waiting in ticker.C
    nRenew,     \* client.RenewCertificate requests sent so far
    resolved,   \* what the last GetCertificate call returned
    api         \* the last call a user of the packages made, and its result

bgVars == <<bg, tickerC, nRenew, resolved>>

Goroutines == {"catchup", "ticker"}
\* a goroutine's locals: the renewed certificate, the bytes tlsCert read, the
\* object it derived, the account as SaveAccount marshalled it, and what its
\* last renewCertificate returned
Idle(l, e) ==
    [pc |-> l, renewedCert |-> None, cert |-> EmptyCert, tlsCert |-> 0, data |-> None, err |-> e]
NotResolved == [name |-> "", cert |-> 0, err |-> ""]
\* a call of an exported function: its name, its arguments, the error and the
\* value it returned
Call(op, args, err, out) == [op |-> op, args |-> args, err |-> err, out |-> out]
NoCall == Call("", <<>>, FALSE, <<>>)

mainVars == <<cfg, pc, ret, backend, store, account, dc, needRegister, tlsHeap,
              tlsConfig, now, issued, calls, domains, certificate>>

Running == [status |-> "running", at |-> ""]
Returned(status, at) == [status |-> status, at |-> at]

NoDC == [Certificate |-> None, Domain |-> None, TLSCert |-> 0]

InitMain ==
    /\ cfg \in Configs
    /\ pc = "start"
    /\ ret = Running
    /\ backend = ""
    /\ store \in [{MainDomain} -> {None} \cup {Some(f) : f \in StoredFiles}]
    /\ account = None
    /\ dc = NoDC
    /\ needRegister = FALSE
    /\ tlsHeap = <<>>
    /\ tlsConfig = [GetCertificate |-> FALSE, Certificates |-> <<>>]
    /\ now = 0
    /\ issued = 1
    /\ calls = <<>>
    /\ domains = <<>>
    /\ certificate = None
    /\ bg = [g \in Goroutines |-> Idle("none", "")]
    /\ tickerC = 0
    /\ nRenew = 0
    /\ resolved = NotResolved
    /\ api = NoCall

\* ------------------------------------------------------ DomainCertificate
\* dc.tlsCert(): the pair derived from the bytes read, or an error.
tlsCertOkMutIgnoreErr(cert, key) == TRUE
tlsCertOk(cert, key) == X509KeyPairOk(cert, key)
tlsCert(cert, key) == X509KeyPair(cert, key)

\* dc.TLSCert = tlsCert: a fresh object is allocated and its address stored.
AllocMutInPlace(heap, obj) ==
    IF heap = <<>> THEN <<obj>> ELSE [heap EXCEPT ![Len(heap)] = obj]
Alloc(heap, obj) == Append(heap, obj)
SetTLSCert(d, ptr) == [d EXCEPT !.TLSCert = ptr]

\* dc.Init(), run with no other goroutine alive: on success the derived
\* object is stored in dc.TLSCert, on failure dc is left as it is.
DCInitOk(d) ==
    tlsCertOk(Deref(d.Certificate).Cert, Deref(d.Certificate).PrivateKey)
DCInitHeap(d, heap) ==
    Alloc(heap, tlsCert(Deref(d.Certificate).Cert, Deref(d.Certificate).PrivateKey))
DCInit(d, heap) == SetTLSCert(d, Len(DCInitHeap(d, heap)))

\* ------------------------------------------------------------ CreateConfig
Return(status, at) ==
    /\ pc' = "exit"
    /\ ret' = Returned(status, at)

\* if err != nil { return err }
FailMutContinue(at) ==
    /\ pc' = "install"
    /\ UNCHANGED ret
Fail(at) == Return("error", at)

Goto(l) ==
    /\ pc' = l
    /\ UNCHANGED ret

Log(op) == calls' = Append(calls, op)

\* acme.go:137-148
ValidateDomain ==
    /\ pc = "start"
    /\ IF IsNil(cfg.Domain) \/ Deref(cfg.Domain).Main = ""
       THEN Return("panic", "domain")
       ELSE IF cfg.SelfSigned THEN Goto("selfSigned") ELSE Goto("initBackend")
    /\ UNCHANGED <<cfg, backend, store, account, dc, needRegister, tlsHeap,
                   tlsConfig, now, issued, calls, domains, certificate, bgVars, api>>

\* generateSelfSignedCertificate: a key pair whose certificate names the domain
SelfSignedCertificateMutNoName(domain, t) ==
    [Certificate |-> <<Segment(0, t, 1)>>, PrivateKey |-> 1, DNSNames |-> <<>>]
SelfSignedCertificate(domain, t) ==
    [Certificate |-> <<Segment(0, t, 1)>>, PrivateKey |-> 1, DNSNames |-> <<domain>>]

\* acme.go:140-148
SelfSigned ==
    /\ pc = "selfSigned"
    /\ \E ok \in BOOLEAN :
        IF ok
        THEN /\ tlsConfig' = [tlsConfig EXCEPT !.Certificates =
                    <<SelfSignedCertificate(Deref(cfg.Domain).Main, now)>>]
             /\ Return("nil", "")
        ELSE /\ UNCHANGED tlsConfig
             /\ Fail("selfSigned")
    /\ UNCHANGED <<cfg, backend, store, account, dc, needRegister, tlsHeap,
                   now, issued, calls, domains, certificate, bgVars, api>>

\* backend.GetBackend: the registered factory's result, nil for an unknown name
FactoryMayFail(name) == name \in {"fs", "s3"}
GetBackendFoundMutAny(name) == TRUE
GetBackendFound(name) == name \in Backends

\* backend.go:56-64  GetBackend(name): no backend and no error for a name
\* that is not registered, otherwise what the factory returns
GetBackend(name, ok) ==
    IF ~GetBackendFound(name) THEN [b |-> "", err |-> FALSE]
    ELSE IF FactoryMayFail(name) /\ ~ok THEN [b |-> "", err |-> TRUE]
    ELSE [b |-> name, err |-> FALSE]

\* backend.go:67-84  InitBackend(name)
InitBackendCall(name, ok) ==
    IF name = "" THEN [b |-> "", err |-> FALSE]
    ELSE IF GetBackend(name, ok).err THEN [b |-> "", err |-> TRUE]
    ELSE IF GetBackend(name, ok).b = "" THEN [b |-> "", err |-> TRUE]
    ELSE [b |-> GetBackend(name, ok).b, err |-> FALSE]

\* acme.go:152-159, backend.InitBackend
InitBackend ==
    /\ pc = "initBackend"
    /\ LET name == IF cfg.BackendName = "" THEN "fs" ELSE cfg.BackendName IN
       \E ok \in BOOLEAN :
        IF ~InitBackendCall(name, ok).err
        THEN /\ backend' = InitBackendCall(name, ok).b
             /\ Goto("loadAccount")
        ELSE /\ UNCHANGED backend
             /\ Fail("initBackend")
    /\ UNCHANGED <<cfg, store, account, dc, needRegister, tlsHeap,
                   tlsConfig, now, issued, calls, domains, certificate, bgVars, api>>

\* backend.LoadAccount(domain): the account decoded from the stored file, nil
\* when there is none; the null backend hands back an empty Account.
LoadedAccount(f) == [Registration |-> f.Registration, hasDC |-> ~IsNil(f.DomainsCertificate)]
LoadedDCMutStoredTLS(f) ==
    IF IsNil(f.DomainsCertificate) THEN NoDC
    ELSE [Certificate |-> Deref(f.DomainsCertificate).Certificate,
          Domain |-> Deref(f.DomainsCertificate).Domain,
          TLSCert |-> 1]
LoadedDC(f) ==
    IF IsNil(f.DomainsCertificate) THEN NoDC
    ELSE [Certificate |-> Deref(f.DomainsCertificate).Certificate,
          Domain |-> Deref(f.DomainsCertificate).Domain,
          TLSCert |-> 0]
NullAccount == [Registration |-> FALSE, hasDC |-> FALSE]

\* acme.go:165-168
LoadAccount ==
    /\ pc = "loadAccount"
    /\ Log("loadAccount")
    /\ LET key == Deref(cfg.Domain).Main IN
       IF backend = "null"
       THEN /\ account' = Some(NullAccount)
            /\ dc' = NoDC
            /\ Goto("haveAccount")
       ELSE \/ /\ UNCHANGED <<account, dc>>
               /\ Fail("loadAccount")
            \/ /\ IsNil(store[key])
               /\ UNCHANGED <<account, dc>>
               /\ Goto("noAccount")
            \/ /\ ~IsNil(store[key])
               /\ account' = Some(LoadedAccount(Deref(store[key])))
               /\ dc' = LoadedDC(Deref(store[key]))
               /\ Goto("haveAccount")
    /\ UNCHANGED <<cfg, backend, store, needRegister, tlsHeap,
                   tlsConfig, now, issued, domains, certificate, bgVars, api>>

\* acme.go:169-173: account.DomainsCertificate.Init() on the loaded account;
\* a nil DomainsCertificate or a nil Certificate is dereferenced in tlsCert.
InitLoaded ==
    /\ pc = "haveAccount"
    /\ IF ~Deref(account).hasDC \/ IsNil(dc.Certificate)
       THEN /\ UNCHANGED <<dc, tlsHeap>>
            /\ Return("panic", "init")
       ELSE IF DCInitOk(dc)
       THEN /\ tlsHeap' = DCInitHeap(dc, tlsHeap)
            /\ dc' = DCInit(dc, tlsHeap)
            /\ Goto("buildClient")
       ELSE /\ UNCHANGED <<dc, tlsHeap>>
            /\ Fail("init")
    /\ UNCHANGED <<cfg, backend, store, account, needRegister,
                   tlsConfig, now, issued, calls, domains, certificate, bgVars, api>>

\* types.NewAccount: a DomainCertificate with an empty Certificate
NewAccountDC(domain) == [Certificate |-> Some(EmptyCertificate), Domain |-> domain, TLSCert |-> 0]

\* acme.go:174-181
NewAccount ==
    /\ pc = "noAccount"
    /\ \E ok \in BOOLEAN :
        IF ok
        THEN /\ account' = Some([Registration |-> FALSE, hasDC |-> TRUE])
             /\ dc' = NewAccountDC(cfg.Domain)
             /\ needRegister' = TRUE
             /\ Goto("buildClient")
        ELSE /\ UNCHANGED <<account, dc, needRegister>>
             /\ Fail("newAccount")
    /\ UNCHANGED <<cfg, backend, store, tlsHeap,
                   tlsConfig, now, issued, calls, domains, certificate, bgVars, api>>

\* acme.go:183-186
BuildClient ==
    /\ pc = "buildClient"
    /\ \E ok \in BOOLEAN :
        IF ok THEN Goto("dnsProvider") ELSE Fail("buildClient")
    /\ UNCHANGED <<cfg, backend, store, account, dc, needRegister, tlsHeap,
                   tlsConfig, now, issued, calls, domains, certificate, bgVars, api>>

\* acme.go:194: if needRegister
AfterProviderMutSkipRegister(needReg) == "branch"
AfterProviderMutAlways(needReg) == "register"
AfterProvider(needReg) == IF needReg THEN "register" ELSE "branch"

\* acme.go:187-192, provider.go:17-44: an unknown name panics
NewDNSProvider ==
    /\ pc = "dnsProvider"
    /\ IF cfg.DNSProvider \notin KnownDNSProviders
       THEN Return("panic", "dnsProvider")
       ELSE \E ok \in BOOLEAN :
            IF ok
            THEN Goto(AfterProvider(needRegister))
            ELSE Fail("dnsProvider")
    /\ UNCHANGED <<cfg, backend, store, account, dc, needRegister, tlsHeap,
                   tlsConfig, now, issued, calls, domains, certificate, bgVars, api>>

\* acme.go:194-200
Register ==
    /\ pc = "register"
    /\ Log("register")
    /\ \E ok \in BOOLEAN :
        IF ok
        THEN /\ account' = Some([Deref(account) EXCEPT !.Registration = TRUE])
             /\ Goto("agreeTOS")
        ELSE /\ UNCHANGED account
             /\ Fail("register")
    /\ UNCHANGED <<cfg, backend, store, dc, needRegister, tlsHeap,
                   tlsConfig, now, issued, domains, certificate, bgVars, api>>

\* acme.go:204-207
AgreeToTOS ==
    /\ pc = "agreeTOS"
    /\ Log("agreeToTerms")
    /\ \E ok \in BOOLEAN :
        IF ok THEN Goto("branch") ELSE Fail("agreeToTerms")
    /\ UNCHANGED <<cfg, backend, store, account, dc, needRegister, tlsHeap,
                   tlsConfig, now, issued, domains, certificate, bgVars, api>>

\* backend.SaveAccount(account): fs and s3 write the marshalled account under
\* the key of account.DomainsCertificate.Domain.Main; null writes nothing.
SaveFile(acct, d) == File(acct.Registration, Some(StoredDC(d.Certificate, d.Domain)))
SaveMayFail(b) == b /= "null"
Saved(st, b, acct, d) ==
    IF b = "null" THEN st
    ELSE [st EXCEPT ![Deref(d.Domain).Main] = Some(SaveFile(acct, d))]

\* acme.go:210-222: spawn the catch-up goroutine when the account carries
\* certificate and key bytes, otherwise go on to retrieveCertificate
HasCertificateMutNever(d) == FALSE
HasCertificate(d) ==
    /\ ~Deref(d.Certificate).Cert.empty
    /\ ~Deref(d.Certificate).PrivateKey.empty
Branch ==
    /\ pc = "branch"
    /\ IF HasCertificate(dc)
       THEN /\ bg' = [bg EXCEPT !["catchup"] = Idle("check", "")]
            /\ UNCHANGED domains
            /\ Goto("install")
       ELSE /\ domains' = <<Deref(cfg.Domain).Main>> \o Deref(cfg.Domain).SANs
            /\ UNCHANGED bg
            /\ Goto("obtain")
    /\ UNCHANGED <<cfg, backend, store, account, dc, needRegister, tlsHeap,
                   tlsConfig, now, issued, calls, certificate, tickerC, nRenew, resolved, api>>

\* acme.go:46-48: retrieveCertificate returns the error of
\* getDomainCertificate at once
ObtainFailedMutGoOn ==
    /\ pc' = "addCertificate"
    /\ ret' = Returned("error", "obtainCertificate")
ObtainFailed == Fail("obtainCertificate")

\* acme.go:45-48, getDomainCertificate (acme.go:117-130)
GetDomainCertificate ==
    /\ pc = "obtain"
    /\ Log("obtainCertificate")
    /\ \E out \in {"failures"} \cup IssuedShapes :
        IF out = "failures"
        THEN /\ UNCHANGED <<certificate, issued>>
             /\ ObtainFailed
        ELSE /\ certificate' = Some(Issued(issued + 1, now, domains[1], out))
             /\ issued' = issued + 1
             /\ Goto("addCertificate")
    /\ UNCHANGED <<cfg, backend, store, account, dc, needRegister, tlsHeap,
                   tlsConfig, now, domains, bgVars, api>>

\* dc.AddCertificate(acmeCert, domain): both fields are set, then Init
AddCertificateSet(d, acmeCert, domain) ==
    [d EXCEPT !.Domain = domain, !.Certificate = acmeCert]

\* acme.go:49-51
AddCertificate ==
    /\ pc = "addCertificate"
    /\ Log("addCertificate")
    /\ LET d == AddCertificateSet(dc, certificate, cfg.Domain) IN
       IF DCInitOk(d)
       THEN /\ tlsHeap' = DCInitHeap(d, tlsHeap)
            /\ dc' = DCInit(d, tlsHeap)
            /\ Goto("saveAccount")
       ELSE /\ dc' = d
            /\ UNCHANGED tlsHeap
            /\ Fail("addCertificate")
    /\ UNCHANGED <<cfg, backend, store, account, needRegister,
                   tlsConfig, now, issued, domains, certificate, bgVars, api>>

\* acme.go:52-56
SaveAccount ==
    /\ pc = "saveAccount"
    /\ Log("saveAccount")
    /\ \E ok \in BOOLEAN :
        IF ok \/ ~SaveMayFail(backend)
        THEN /\ store' = Saved(store, backend, Deref(account), dc)
             /\ Goto("install")
        ELSE /\ UNCHANGED store
             /\ Fail("saveAccount")
    /\ UNCHANGED <<cfg, backend, account, dc, needRegister, tlsHeap,
                   tlsConfig, now, issued, domains, certificate, bgVars, api>>

\* acme.go:223-228
InstallGetCertificate ==
    /\ pc = "install"
    /\ Log("install")
    /\ tlsConfig' = [tlsConfig EXCEPT !.GetCertificate = TRUE]
    /\ Goto("startTicker")
    /\ UNCHANGED <<cfg, backend, store, account, dc, needRegister, tlsHeap,
                   now, issued, domains, certificate, bgVars, api>>

\* acme.go:241: the result of CreateConfig once the ticker goroutine is
\* started; b is the state of the goroutines, which the code does not look at
StartedResultMutCatchup(b) == IF b["catchup"].err /= "" THEN "error" ELSE "nil"
StartedResult(b) == "nil"

\* acme.go:231-240
StartTicker ==
    /\ pc = "startTicker"
    /\ Log("startTicker")
    /\ bg' = [bg EXCEPT !["ticker"] = Idle("wait", "")]
    /\ Return(StartedResult(bg), "")
    /\ UNCHANGED <<cfg, backend, store, account, dc, needRegister, tlsHeap,
                   tlsConfig, now, issued, domains, certificate, tickerC, nRenew, resolved, api>>

\* --------------------------------------------------------- renewCertificate
\* where a goroutine goes when its renewCertificate call returns e: the
\* catch-up goroutine ends, the ticker goroutine waits for the next tick
AfterMutStop(g) == "done"
After(g) == IF g = "ticker" THEN "wait" ELSE "done"
RenewReturnMutRetry(g, e) ==
    bg' = [bg EXCEPT ![g] = IF e = "save" THEN [bg[g] EXCEPT !.pc = "save"]
                            ELSE Idle(After(g), e)]
RenewReturn(g, e) == bg' = [bg EXCEPT ![g] = Idle(After(g), e)]

\* acme.go:74-82: dc.TLSCert is tested; when it needs an update the request
\* built from dc.Certificate is sent to the authority
RenewCheck(g) ==
    /\ bg[g].pc = "check"
    /\ IF needsUpdate(tlsHeap[dc.TLSCert], now)
       THEN /\ bg' = [bg EXCEPT ![g].pc = "renewing"]
            /\ nRenew' = nRenew + 1
       ELSE /\ RenewReturn(g, "")
            /\ UNCHANGED nRenew
    /\ UNCHANGED <<mainVars, tickerC, resolved, api>>

\* what the authority answers to a renew request for a domain
RenewOutcomes(domain) ==
    {[err |-> TRUE, shape |-> "good", domain |-> domain]}
    \cup [err : {FALSE}, shape : IssuedShapes, domain : {domain}]
    \cup {[err |-> FALSE, shape |-> "good", domain |-> OtherDomain]}

\* acme.go:83-85: if err != nil { return err }
AfterRenewCallMutIgnoreErr(err) == "assign"
AfterRenewCall(err) == IF err THEN "return" ELSE "assign"

\* acme.go:76-92: client.RenewCertificate returns; with an error the
\* resource it returns is the zero CertificateResource
RenewCertificateReturns(g) ==
    /\ bg[g].pc = "renewing"
    /\ \E out \in RenewOutcomes(Deref(dc.Certificate).Domain) :
        /\ IF AfterRenewCall(out.err) = "return"
           THEN RenewReturn(g, "renew")
           ELSE bg' = [bg EXCEPT ![g].pc = "assign",
                                 ![g].renewedCert =
                                     IF out.err THEN Some(EmptyCertificate)
                                     ELSE Some(Issued(issued + 1, now, out.domain, out.shape))]
        /\ issued' = IF out.err THEN issued ELSE issued + 1
    /\ UNCHANGED <<cfg, pc, ret, backend, store, account, dc, needRegister, tlsHeap,
                   tlsConfig, now, calls, domains, certificate, tickerC, nRenew, resolved, api>>

\* part_004:109: reflect.DeepEqual(domain, dc.Domain)
SameDomainMutMainOnly(domain, d) == Deref(domain).Main = Deref(d.Domain).Main
SameDomain(domain, d) == domain = d.Domain

\* acme.go:93, part_004:108-110 and 116: called with dc.Domain itself; the
\* new Certificate is stored in dc.Certificate
RenewAssign(g) ==
    /\ bg[g].pc = "assign"
    /\ IF SameDomain(dc.Domain, dc)
       THEN /\ dc' = [dc EXCEPT !.Certificate = bg[g].renewedCert]
            /\ bg' = [bg EXCEPT ![g].pc = "readCert"]
       ELSE /\ UNCHANGED dc
            /\ RenewReturn(g, "domain")
    /\ UNCHANGED <<cfg, pc, ret, backend, store, account, needRegister, tlsHeap,
                   tlsConfig, now, issued, calls, domains, certificate,
                   tickerC, nRenew, resolved, api>>

\* part_004:90: dc.Certificate.Cert is read
RenewReadCert(g) ==
    /\ bg[g].pc = "readCert"
    /\ bg' = [bg EXCEPT ![g].pc = "readKey", ![g].cert = Deref(dc.Certificate).Cert]
    /\ UNCHANGED <<mainVars, tickerC, nRenew, resolved, api>>

\* part_004:90-94: dc.Certificate.PrivateKey is read and the pair derived
\* into a new object
RenewReadKey(g) ==
    /\ bg[g].pc = "readKey"
    /\ LET key == Deref(dc.Certificate).PrivateKey IN
       IF tlsCertOk(bg[g].cert, key)
       THEN /\ tlsHeap' = Alloc(tlsHeap, tlsCert(bg[g].cert, key))
            /\ bg' = [bg EXCEPT ![g].pc = "publish", ![g].tlsCert = Len(tlsHeap')]
       ELSE /\ UNCHANGED tlsHeap
            /\ RenewReturn(g, "init")
    /\ UNCHANGED <<cfg, pc, ret, backend, store, account, dc, needRegister,
                   tlsConfig, now, issued, calls, domains, certificate,
                   tickerC, nRenew, resolved, api>>

\* part_004:103: dc.TLSCert = tlsCert
RenewPublish(g) ==
    /\ bg[g].pc = "publish"
    /\ dc' = SetTLSCert(dc, bg[g].tlsCert)
    /\ bg' = [bg EXCEPT ![g].pc = "save"]
    /\ UNCHANGED <<cfg, pc, ret, backend, store, account, needRegister, tlsHeap,
                   tlsConfig, now, issued, calls, domains, certificate,
                   tickerC, nRenew, resolved, api>>

\* the file SaveAccount writes: the bytes it marshalled, under the key of the
\* account's main domain
Written(st, d, data) == [st EXCEPT ![Deref(d.Domain).Main] = data]

\* acme.go:97, fs.go:36-40: SaveAccount takes the storage lock and marshals
\* the account as it is now; the null backend returns nil at once
RenewMarshal(g) ==
    /\ bg[g].pc = "save"
    /\ \A h \in Goroutines : bg[h].pc /= "write"
    /\ IF backend = "null"
       THEN RenewReturn(g, "")
       ELSE bg' = [bg EXCEPT ![g].pc = "write",
                             ![g].data = Some(SaveFile(Deref(account), dc))]
    /\ UNCHANGED <<mainVars, tickerC, nRenew, resolved, api>>

\* acme.go:97-101: what renewCertificate returns after SaveAccount
AfterSaveMutSwallow(ok) == ""
AfterSave(ok) == IF ok THEN "" ELSE "save"

\* acme.go:97-101, fs.go:43: the marshalled bytes are written, or the write
\* fails, and renewCertificate returns
RenewSave(g) ==
    /\ bg[g].pc = "write"
    /\ \E ok \in BOOLEAN :
        /\ store' = IF ok THEN Written(store, dc, bg[g].data) ELSE store
        /\ RenewReturn(g, AfterSave(ok))
    /\ UNCHANGED <<cfg, pc, ret, backend, account, dc, needRegister, tlsHeap,
                   tlsConfig, now, issued, calls, domains, certificate,
                   tickerC, nRenew, resolved, api>>

\* acme.go:233: the ticker goroutine takes a tick from ticker.C
TickerReceiveMutOverlap ==
    /\ bg["ticker"].pc /= "none"
    /\ tickerC > 0
    /\ tickerC' = 0
    /\ bg' = [bg EXCEPT !["ticker"].pc = "check"]
    /\ UNCHANGED <<mainVars, nRenew, resolved, api>>
TickerReceive ==
    /\ bg["ticker"].pc = "wait"
    /\ tickerC > 0
    /\ tickerC' = 0
    /\ bg' = [bg EXCEPT !["ticker"].pc = "check"]
    /\ UNCHANGED <<mainVars, nRenew, resolved, api>>

\* acme.go:231: 24 hours pass and the ticker puts a tick in its channel, which
\* holds at most one
Tick ==
    /\ now < MaxDay
    /\ bg["ticker"].pc /= "none"
    /\ now' = now + 1
    /\ tickerC' = 1
    /\ UNCHANGED <<cfg, pc, ret, backend, store, account, dc, needRegister, tlsHeap,
                   tlsConfig, issued, calls, domains, certificate, bg, nRenew, resolved, api>>

\* ------------------------------------------------------------ GetCertificate
ServerNames == {MainDomain, SanDomain, ""}

\* acme.go:223-228
GetCertificateMutSANs(serverName) ==
    IF serverName /= Deref(cfg.Domain).Main /\ serverName /= SanDomain
    THEN [name |-> serverName, cert |-> 0, err |-> "Unknown server name"]
    ELSE [name |-> serverName, cert |-> dc.TLSCert, err |-> ""]
GetCertificate(serverName) ==
    IF serverName /= Deref(cfg.Domain).Main
    THEN [name |-> serverName, cert |-> 0, err |-> "Unknown server name"]
    ELSE [name |-> serverName, cert |-> dc.TLSCert, err |-> ""]

\* the TLS listener calls tlsConfig.GetCertificate for a handshake
ResolveMutLocked ==
    /\ tlsConfig.GetCertificate
    /\ \A g \in Goroutines : bg[g].pc /= "write"
    /\ \E serverName \in ServerNames : resolved' = GetCertificate(serverName)
    /\ UNCHANGED <<mainVars, bg, tickerC, nRenew, api>>
Resolve ==
    /\ tlsConfig.GetCertificate
    /\ \E serverName \in ServerNames : resolved' = GetCertificate(serverName)
    /\ UNCHANGED <<mainVars, bg, tickerC, nRenew, api>>

Next ==
    \/ ValidateDomain
    \/ SelfSigned
    \/ InitBackend
    \/ LoadAccount
    \/ InitLoaded
    \/ NewAccount
    \/ BuildClient
    \/ NewDNSProvider
    \/ Register
    \/ AgreeToTOS
    \/ Branch
    \/ GetDomainCertificate
    \/ AddCertificate
    \/ SaveAccount
    \/ InstallGetCertificate
    \/ StartTicker
    \/ \E g \in Goroutines :
        \/ RenewCheck(g)
        \/ RenewCertificateReturns(g)
        \/ RenewAssign(g)
        \/ RenewReadCert(g)
        \/ RenewReadKey(g)
        \/ RenewPublish(g)
        \/ RenewMarshal(g)
        \/ RenewSave(g)
    \/ TickerReceive
    \/ Tick
    \/ Resolve

Init == InitMain

vars == <<mainVars, bgVars, api>>

Spec == Init /\ [][Next]_vars

\* ---------------------------------------------------------------- scheduling
\* the steps of goroutine g inside a.renewCertificate
renewCertificate(g) ==
    \/ RenewCheck(g)
    \/ RenewCertificateReturns(g)
    \/ RenewAssign(g)
    \/ RenewReadCert(g)
    \/ RenewReadKey(g)
    \/ RenewPublish(g)
    \/ RenewMarshal(g)
    \/ RenewSave(g)

\* a deployment on the default backend with a known DNS provider: first boot,
\* or a restart on a certificate 3 days from expiry
InitDeployed ==
    /\ InitMain
    /\ cfg.Domain = Some(Domain(MainDomain, <<SanDomain>>))
    /\ cfg.BackendName = ""
    /\ cfg.DNSProvider \in KnownDNSProviders
    /\ ~cfg.SelfSigned
    /\ store[MainDomain] \in {None, Some(File(TRUE, Some(StoredDC(Some(StoredCert(3)),
                                                                   Some(StoredDomain)))))}

\* The Go runtime runs every runnable goroutine, the ticker delivers a tick
\* every 24 hours, and a call to the authority or to the backend returns.
Fairness ==
    /\ WF_vars(Tick)
    /\ WF_vars(TickerReceive)
    /\ \A g \in Goroutines : WF_vars(renewCertificate(g))

\* CreateConfig and its goroutines; handshakes, which change nothing that
\* CreateConfig or a goroutine reads, are left out
NextScheduled ==
    \/ ValidateDomain
    \/ InitBackend
    \/ LoadAccount
    \/ InitLoaded
    \/ NewAccount
    \/ BuildClient
    \/ NewDNSProvider
    \/ Register
    \/ AgreeToTOS
    \/ Branch
    \/ GetDomainCertificate
    \/ AddCertificate
    \/ SaveAccount
    \/ InstallGetCertificate
    \/ StartTicker
    \/ \E g \in Goroutines : renewCertificate(g)
    \/ TickerReceive
    \/ Tick

SpecFair == InitDeployed /\ [][NextScheduled]_vars /\ Fairness

\* CreateConfig from every configuration and store, with the catch-up
\* goroutine it starts running beside it: the day of the start, before the
\* first tick and with no handshake
NextStartup ==
    \/ ValidateDomain
    \/ SelfSigned
    \/ InitBackend
    \/ LoadAccount
    \/ InitLoaded
    \/ NewAccount
    \/ BuildClient
    \/ NewDNSProvider
    \/ Register
    \/ AgreeToTOS
    \/ Branch
    \/ GetDomainCertificate
    \/ AddCertificate
    \/ SaveAccount
    \/ InstallGetCertificate
    \/ StartTicker
    \/ \E g \in Goroutines : renewCertificate(g)

SpecStartup == Init /\ [][NextStartup]_vars

\* the deployed program with its goroutines and the handshakes of the TLS
\* listener
NextServing ==
    \/ NextScheduled
    \/ Resolve

SpecServing == InitDeployed /\ [][NextServing]_vars

\* ------------------------------------------- the DomainCertificate methods
\* The exported methods of types.DomainCertificate, called by a user of the
\* package on one object with arguments of its choice.
\* tls.Certificate objects the calls of one run may allocate
MaxObjects == 3

APIDomains ==
    {Some(Domain(MainDomain, <<SanDomain>>)), Some(Domain(MainDomain, <<>>)),
     Some(Domain(OtherDomain, <<>>))}
APICertificates ==
    {Some(Issued(2, 0, MainDomain, "good")), Some(Issued(3, 0, MainDomain, "good")),
     Some(Issued(4, 0, MainDomain, "corrupt"))}

\* CreateConfig is not running: its variables stay as they are
AtRest ==
    /\ cfg = [Domain |-> Some(Domain(MainDomain, <<SanDomain>>)), SelfSigned |-> FALSE,
              BackendName |-> "", DNSProvider |-> "route53"]
    /\ pc = "start"
    /\ ret = Running
    /\ account = None
    /\ needRegister = FALSE
    /\ tlsConfig = [GetCertificate |-> FALSE, Certificates |-> <<>>]
    /\ issued = 1
    /\ calls = <<>>
    /\ domains = <<>>
    /\ certificate = None
    /\ bg = [g \in Goroutines |-> Idle("none", "")]
    /\ tickerC = 0
    /\ nRenew = 0
    /\ resolved = NotResolved
    /\ api = NoCall

\* the object as types.NewAccount builds it or as LoadAccount decodes it
InitDC ==
    /\ AtRest
    /\ backend = ""
    /\ store = [k \in {MainDomain} |-> None]
    /\ now = 0
    /\ tlsHeap = <<>>
    /\ dc \in {NewAccountDC(d) : d \in APIDomains} \cup {LoadedDC(f) : f \in StoredFiles}

dcFrame ==
    UNCHANGED <<cfg, pc, ret, backend, store, account, needRegister, tlsConfig, now,
                issued, calls, domains, certificate, bgVars>>

\* part_004:98-105  dc.Init()
CallInit ==
    /\ Len(tlsHeap) < MaxObjects
    /\ IF DCInitOk(dc)
       THEN /\ tlsHeap' = DCInitHeap(dc, tlsHeap)
            /\ dc' = DCInit(dc, tlsHeap)
            /\ api' = Call("Init", <<>>, FALSE, <<>>)
       ELSE /\ UNCHANGED <<dc, tlsHeap>>
            /\ api' = Call("Init", <<>>, TRUE, <<>>)
    /\ dcFrame

\* part_004:108-117  dc.RenewCertificate(acmeCert, domain)
CallRenewCertificate ==
    /\ Len(tlsHeap) < MaxObjects
    /\ \E acmeCert \in APICertificates, domain \in APIDomains :
        IF SameDomain(domain, dc)
        THEN LET d == [dc EXCEPT !.Certificate = acmeCert] IN
             IF DCInitOk(d)
             THEN /\ tlsHeap' = DCInitHeap(d, tlsHeap)
                  /\ dc' = DCInit(d, tlsHeap)
                  /\ api' = Call("RenewCertificate", <<acmeCert, domain>>, FALSE, <<>>)
             ELSE /\ dc' = d
                  /\ UNCHANGED tlsHeap
                  /\ api' = Call("RenewCertificate", <<acmeCert, domain>>, TRUE, <<>>)
        ELSE /\ UNCHANGED <<dc, tlsHeap>>
             /\ api' = Call("RenewCertificate", <<acmeCert, domain>>, TRUE, <<>>)
    /\ dcFrame

\* part_004:120-124  dc.AddCertificate(acmeCert, domain)
CallAddCertificate ==
    /\ Len(tlsHeap) < MaxObjects
    /\ \E acmeCert \in APICertificates, domain \in APIDomains :
        LET d == AddCertificateSet(dc, acmeCert, domain) IN
        IF DCInitOk(d)
        THEN /\ tlsHeap' = DCInitHeap(d, tlsHeap)
             /\ dc' = DCInit(d, tlsHeap)
             /\ api' = Call("AddCertificate", <<acmeCert, domain>>, FALSE, <<>>)
        ELSE /\ dc' = d
             /\ UNCHANGED tlsHeap
             /\ api' = Call("AddCertificate", <<acmeCert, domain>>, TRUE, <<>>)
    /\ dcFrame

NextDC ==
    \/ CallInit
    \/ CallRenewCertificate
    \/ CallAddCertificate

SpecDC == InitDC /\ [][NextDC]_vars

\* -------------------------------------------------------------- needsUpdate
\* needsUpdate applied to the chain of a tls.Certificate of any content
\* segments in a chain
MaxChain == 3

\* DER segments: unparsable, or expiring around the 7 day mark of some day
\* of the run
Segments ==
    {BadSegment} \cup {Segment(1, n, 1) : n \in (RenewDays - 1)..(RenewDays + MaxDay + 1)}
Chains == UNION {[1..n -> Segments] : n \in 0..MaxChain}

InitNeedsUpdate ==
    /\ AtRest
    /\ backend = ""
    /\ store = [k \in {MainDomain} |-> None]
    /\ now \in 0..MaxDay
    /\ tlsHeap = <<>>
    /\ dc = NoDC

\* acme.go:59-71  needsUpdate(cert)
CallNeedsUpdate ==
    /\ api = NoCall
    /\ \E chain \in Chains :
        api' = Call("needsUpdate", <<chain>>, FALSE,
                    needsUpdate([Certificate |-> chain, PrivateKey |-> 1], now))
    /\ UNCHANGED <<mainVars, bgVars>>

SpecNeedsUpdate == InitNeedsUpdate /\ [][CallNeedsUpdate]_vars

\* --------------------------------------------------------- backend.Interface
\* SaveAccount and LoadAccount of one registered backend, called by a user of
\* the package with accounts and domains of its choice.
BackendKeys == {MainDomain, OtherDomain}

\* the account argument of SaveAccount: its DomainsCertificate
APIAccounts ==
    {[Certificate |-> c, Domain |-> d, TLSCert |-> 0] : c \in APICertificates, d \in APIDomains}

InitBackendAPI ==
    /\ AtRest
    /\ backend \in Backends
    /\ store = [k \in BackendKeys |-> None]
    /\ now = 0
    /\ tlsHeap = <<>>
    /\ dc = NoDC

backendFrame ==
    UNCHANGED <<cfg, pc, ret, backend, account, dc, needRegister, tlsHeap, tlsConfig, now,
                issued, calls, domains, certificate, bgVars>>

\* fs.go:35-44, part_002:20-22, part_002:184-205  SaveAccount(account)
CallSaveAccount ==
    /\ \E d \in APIAccounts, ok \in BOOLEAN :
        IF ok \/ ~SaveMayFail(backend)
        THEN /\ store' = Saved(store, backend, [Registration |-> TRUE, hasDC |-> TRUE], d)
             /\ api' = Call("SaveAccount", <<d>>, FALSE, None)
        ELSE /\ UNCHANGED store
             /\ api' = Call("SaveAccount", <<d>>, TRUE, None)
    /\ backendFrame

\* what LoadAccount hands back: the account and its DomainsCertificate
Loaded(acct, d) == Some([account |-> acct, dc |-> d])

\* fs.go:47-71, part_002:25-27, part_002:208-238  LoadAccount(domain)
CallLoadAccount ==
    /\ \E domain \in BackendKeys :
        IF backend = "null"
        THEN api' = Call("LoadAccount", <<domain>>, FALSE, Loaded(NullAccount, NoDC))
        ELSE \/ api' = Call("LoadAccount", <<domain>>, TRUE, None)
             \/ /\ IsNil(store[domain])
                /\ api' = Call("LoadAccount", <<domain>>, FALSE, None)
             \/ /\ ~IsNil(store[domain])
                /\ api' = Call("LoadAccount", <<domain>>, FALSE,
                               Loaded(LoadedAccount(Deref(store[domain])),
                                      LoadedDC(Deref(store[domain]))))
    /\ UNCHANGED store
    /\ backendFrame

NextBackend ==
    \/ CallSaveAccount
    \/ CallLoadAccount

SpecBackend == InitBackendAPI /\ [][NextBackend]_vars

\* ------------------------------------------------------------------ claims
Main == Deref(cfg.Domain).Main
Installed == tlsConfig.GetCertificate

\* a tls.Certificate whose leaf parses and whose key is the leaf's key
UsablePair(obj) ==
    /\ Len(obj.Certificate) > 0
    /\ obj.Certificate[1].ok
    /\ obj.PrivateKey /= 0
    /\ obj.Certificate[1].pub = obj.PrivateKey

InFlight == {g \in Goroutines : bg[g].pc = "renewing"}

\* C1: once the certificate provider is installed, dc.TLSCert is never nil
\* and always points to a successfully derived key/certificate pair, whatever
\* renew attempts succeeded or failed since.
C1_UsableCertificate ==
    Installed =>
        /\ dc.TLSCert \in 1..Len(tlsHeap)
        /\ UsablePair(tlsHeap[dc.TLSCert])

\* C1 witness: the provider is installed and a renew attempt has failed at the
\* derivation step.
C1_Witness ==
    /\ Installed
    /\ \E g \in Goroutines : bg[g].err = "init"

\* C2: at most one renew request to the authority is in flight at any time.
C2_OneRenewInFlight == Cardinality(InFlight) <= 1

\* C3: a TLS object, once allocated, is never changed; dc.TLSCert is replaced
\* under an installed provider only by storing the address of an object that
\* was already complete before the store; and every certificate a resolve
\* call returned is a complete pair.
C3_AtomicReplacement ==
    [][/\ \A i \in 1..Len(tlsHeap) : i <= Len(tlsHeap') /\ tlsHeap'[i] = tlsHeap[i]
       /\ (Installed /\ dc'.TLSCert /= dc.TLSCert) =>
              /\ dc'.TLSCert \in 1..Len(tlsHeap)
              /\ tlsHeap' = tlsHeap
              /\ UsablePair(tlsHeap[dc'.TLSCert])
       /\ resolved'.cert /= 0 => UsablePair(tlsHeap'[resolved'.cert])
      ]_vars

\* C3 witness: a resolve call returned the previous object while a renewed
\* one was already built and not yet published.
C3_Witness ==
    /\ resolved.cert /= 0
    /\ \E g \in Goroutines : bg[g].pc = "publish" /\ bg[g].tlsCert /= resolved.cert

\* the account was found in storage with non-empty certificate and key bytes
FoundWithCertificate ==
    /\ ~IsNil(account)
    /\ ~needRegister
    /\ Deref(account).hasDC
    /\ ~IsNil(dc.Certificate)
    /\ ~Deref(dc.Certificate).Cert.empty
    /\ ~Deref(dc.Certificate).PrivateKey.empty

\* C4: with a stored account that carries certificate and key bytes,
\* CreateConfig makes no register, agreeToTerms or obtainCertificate call, and
\* when it returns nil it has made no call but loadAccount, the installation
\* of the provider and the start of the ticker.
C4_StoredCertificateReused ==
    FoundWithCertificate =>
        /\ \A i \in 1..Len(calls) :
              calls[i] \notin {"register", "agreeToTerms", "obtainCertificate"}
        /\ ret.status = "nil" => calls = <<"loadAccount", "install", "startTicker">>

\* C4 witness: CreateConfig has returned nil on a stored certificate while the
\* catch-up renewal is still waiting for the authority.
C4_Witness ==
    /\ FoundWithCertificate
    /\ ret.status = "nil"
    /\ bg["catchup"].pc = "renewing"

\* every segment of the chain parses and expires no earlier than t + 7 days
Fresh(obj, t) ==
    \A i \in 1..Len(obj.Certificate) :
        obj.Certificate[i].ok /\ obj.Certificate[i].notAfter >= t + RenewDays

\* C5: a renewCertificate call that finds the certificate fresh returns nil
\* and sends no request, saves nothing and leaves dc and the TLS objects as
\* they are.
C5_RenewNoOpWhenFresh ==
    [][\A g \in Goroutines :
          (bg[g].pc = "check" /\ bg'[g].pc /= "check" /\ Fresh(tlsHeap[dc.TLSCert], now)) =>
              /\ bg'[g] = Idle(After(g), "")
              /\ nRenew' = nRenew
              /\ issued' = issued
              /\ store' = store
              /\ dc' = dc
              /\ tlsHeap' = tlsHeap
      ]_vars

\* C5 witness: the catch-up renewal and a ticker renewal have both returned on
\* a fresh certificate and no request was ever sent.
C5_Witness ==
    /\ bg["catchup"].pc = "done"
    /\ bg["ticker"].pc = "wait"
    /\ now >= 1
    /\ tickerC = 0
    /\ nRenew = 0
    /\ Fresh(tlsHeap[dc.TLSCert], now)

\* C6: a resolve call returns the active TLS object exactly for the primary
\* domain; for every other name it returns "Unknown server name" and no
\* certificate.
C6_ResolvePrimaryOnly ==
    [][resolved' /= resolved =>
          IF resolved'.name = Main
          THEN /\ resolved'.err = ""
               /\ resolved'.cert = dc.TLSCert
               /\ resolved'.cert /= 0
          ELSE /\ resolved'.err = "Unknown server name"
               /\ resolved'.cert = 0
      ]_vars

\* C6 witness: a handshake for the configured SAN was refused.
C6_Witness ==
    /\ resolved.name = SanDomain
    /\ resolved.err = "Unknown server name"
    /\ SanDomain \in {Deref(cfg.Domain).SANs[i] : i \in 1..Len(Deref(cfg.Domain).SANs)}

NewAccountCalls ==
    <<"loadAccount", "register", "agreeToTerms", "obtainCertificate",
      "addCertificate", "saveAccount", "install", "startTicker">>
IsPrefix(s, t) == Len(s) <= Len(t) /\ SubSeq(t, 1, Len(s)) = s

\* C7: with no stored account the calls of CreateConfig are, in this order,
\* loadAccount, register, agreeToTerms, obtainCertificate for [main, sans...],
\* AddCertificate, saveAccount, installation of the provider, start of the
\* ticker, all made when it returns nil; no goroutine runs before the account
\* exists and is registered; and right after the return the provider serves
\* the certificate just obtained.
C7_FirstBootOrder ==
    /\ needRegister =>
          /\ IsPrefix(calls, NewAccountCalls)
          /\ bg["catchup"].pc = "none"
          /\ Len(calls) >= 4 => domains = <<Main>> \o Deref(cfg.Domain).SANs
          /\ ret.status = "nil" => calls = NewAccountCalls
          /\ (ret.status = "nil" /\ nRenew = 0) =>
                /\ GetCertificate(Main).cert \in 1..Len(tlsHeap)
                /\ tlsHeap[GetCertificate(Main).cert] =
                       X509KeyPair(Deref(certificate).Cert, Deref(certificate).PrivateKey)
    /\ (\E g \in Goroutines : bg[g].pc /= "none") =>
          /\ ~IsNil(account)
          /\ needRegister => Deref(account).Registration

\* C7 witness: first boot has returned nil and a handshake for the primary
\* domain was served.
C7_Witness ==
    /\ needRegister
    /\ ret.status = "nil"
    /\ resolved.name = MainDomain
    /\ resolved.cert /= 0

\* the account was loaded with a certificate within 7 days of expiry
LoadedExpiring ==
    /\ ~needRegister
    /\ Len(tlsHeap) >= 1
    /\ \E i \in 1..Len(tlsHeap[1].Certificate) :
          tlsHeap[1].Certificate[i].notAfter < RenewDays

\* every renew request answered so far was answered with a certificate, and
\* no renewCertificate call returned an error
AllRenewCallsSucceeded ==
    /\ issued - 1 = nRenew - Cardinality(InFlight)
    /\ \A g \in Goroutines : bg[g].err = ""

\* C8: with a stored certificate within 7 days of expiry and an authority
\* whose renew calls succeed, the catch-up task and the ticker together send
\* no more than the one renew request.
C8_ExactlyOneRenew ==
    (LoadedExpiring /\ AllRenewCallsSucceeded) => nRenew <= 1

\* C9: when CreateConfig returns an error (or panics) the provider is not
\* installed and no goroutine was started; the provider is installed only after the
\* backend was resolved, the account loaded or created, its TLS object
\* derived and, for a new account, the registration recorded and the first
\* certificate saved.
C9_FailureAbortsStartup ==
    /\ ret.status \in {"error", "panic"} =>
          /\ pc = "exit"
          /\ ~Installed
          /\ \A g \in Goroutines : bg[g].pc = "none"
          /\ tickerC = 0
    /\ Installed =>
          /\ backend /= ""
          /\ ~IsNil(account)
          /\ dc.TLSCert /= 0
          /\ needRegister =>
                /\ Deref(account).Registration
                /\ SubSeq(calls, 1, 6) = SubSeq(NewAccountCalls, 1, 6)
                /\ backend /= "null" => ~IsNil(store[Main])

\* C9 witness: the last step of the synchronous portion, the save of the
\* first certificate, failed.
C9_Witness ==
    /\ ret = Returned("error", "saveAccount")
    /\ dc.TLSCert /= 0

\* C10: when the authority's renew call fails, renewCertificate returns the
\* error to its goroutine, which goes on; dc, the TLS objects, the store and
\* what the provider serves are unchanged and CreateConfig's result is not
\* touched.
C10_FailedRenewChangesNothing ==
    [][\A g \in Goroutines :
          (bg[g].pc = "renewing" /\ bg'[g].pc /= "renewing" /\ issued' = issued) =>
              /\ bg'[g] = Idle(After(g), "renew")
              /\ dc' = dc
              /\ tlsHeap' = tlsHeap
              /\ store' = store
              /\ ret' = ret
              /\ tlsConfig' = tlsConfig
              /\ GetCertificate(Main)' = GetCertificate(Main)
      ]_vars

\* C10 witness: a ticker renewal failed at the authority, the goroutine waits
\* for the next tick and a handshake is served the certificate loaded at
\* startup.
C10_Witness ==
    /\ bg["ticker"].pc = "wait"
    /\ bg["ticker"].err = "renew"
    /\ resolved.name = MainDomain
    /\ resolved.cert = 1
    /\ dc.TLSCert = 1

\* the certificate being served fails the freshness test of the renewal
\* scheduler, which is running
Stale ==
    /\ bg["ticker"].pc /= "none"
    /\ ~Fresh(tlsHeap[dc.TLSCert], now)

\* the scheduler has used every tick of the run: the clock is at its bound, no
\* tick is pending and the last attempt has returned
TicksUsed ==
    /\ now = MaxDay
    /\ tickerC = 0
    /\ bg["ticker"].pc = "wait"

\* the provider answers the primary domain with a certificate that passes the
\* freshness test
ServesFresh ==
    /\ GetCertificate(Main).cert /= 0
    /\ Fresh(tlsHeap[GetCertificate(Main).cert], now)

\* C11: the ticker goroutine, once started, never ends, whatever its renew
\* attempts return; a tick that arrives while it waits makes it call
\* renewCertificate again; and under fair scheduling a certificate that needs
\* renewal is eventually replaced by a fresh one in what the provider serves,
\* unless every attempt up to the last tick of the run has failed.
C11_SchedulerRetries ==
    /\ [][bg["ticker"].pc /= "none" => bg'["ticker"].pc \notin {"none", "done"}]_vars
    /\ (bg["ticker"].pc = "wait" /\ tickerC > 0) ~> (bg["ticker"].pc = "check")
    /\ Stale ~> (ServesFresh \/ (TicksUsed /\ bg["ticker"].err /= ""))

\* C11 witness: the catch-up attempt failed at the authority and the ticker's
\* attempt has put a renewed certificate in place.
C11_Witness ==
    /\ now = 2
    /\ nRenew >= 2
    /\ bg["ticker"].pc = "save"
    /\ bg["catchup"].err = "renew"
    /\ Fresh(tlsHeap[dc.TLSCert], now)

\* C12: a certificate issued for another domain is never attached to the
\* DomainCertificate: whenever dc holds a certificate that names a domain, it
\* is the main domain recorded in dc.Domain, and no renewCertificate call that
\* was answered with another domain's certificate gets past the domain check.
C12_RenewedDomainMatches ==
    /\ (~IsNil(dc.Certificate) /\ ~IsNil(dc.Domain) /\ Deref(dc.Certificate).Domain /= "") =>
           Deref(dc.Certificate).Domain = Deref(dc.Domain).Main
    /\ \A g \in Goroutines :
           (bg[g].pc \in {"readCert", "readKey", "publish", "save", "write"}
               /\ ~IsNil(bg[g].renewedCert) /\ ~IsNil(dc.Domain)) =>
                  Deref(bg[g].renewedCert).Domain = Deref(dc.Domain).Main

\* C13: a RenewCertificate call whose domain argument differs from dc.Domain,
\* in the main name or in the SAN list, returns an error and leaves
\* dc.Certificate, dc.Domain, dc.TLSCert and the TLS objects as they were.
C13_RenewOtherDomainRefused ==
    [][(api'.op = "RenewCertificate" /\ api'.args[2] /= dc.Domain) =>
          /\ api'.err
          /\ dc' = dc
          /\ tlsHeap' = tlsHeap
      ]_vars

\* C13 witness: a RenewCertificate call for the same main name with another
\* SAN list was refused on an object that holds a derived certificate.
C13_Witness ==
    /\ api.op = "RenewCertificate"
    /\ api.err
    /\ api.args[2] /= dc.Domain
    /\ Deref(api.args[2]).Main = Deref(dc.Domain).Main
    /\ dc.TLSCert /= 0

\* C14: after a completed AddCertificate or RenewCertificate call that stored
\* its certificate argument in dc.Certificate, and after a successful Init,
\* dc.TLSCert is the object derived from the bytes dc.Certificate holds.
C14_TLSDerivedFromCertificate ==
    (\/ api.op \in {"AddCertificate", "RenewCertificate"} /\ dc.Certificate = api.args[1]
     \/ api.op = "Init" /\ ~api.err) =>
        /\ dc.TLSCert \in 1..Len(tlsHeap)
        /\ tlsHeap[dc.TLSCert] =
               X509KeyPair(Deref(dc.Certificate).Cert, Deref(dc.Certificate).PrivateKey)

\* the stored account holds the certificate and key bytes dc.Certificate holds
DurableEqualsMemory ==
    /\ ~IsNil(store[Main])
    /\ ~IsNil(Deref(store[Main]).DomainsCertificate)
    /\ Deref(Deref(store[Main]).DomainsCertificate).Certificate = dc.Certificate

\* retrieveCertificate returns its certificate and a nil error
ObtainSucceeds == pc = "saveAccount" /\ pc' = "install"
\* renewCertificate returns nil after it renewed
RenewSucceeds(g) == bg[g].pc = "write" /\ bg'[g].pc = After(g) /\ bg'[g].err = ""

\* C15: on a backend that stores, when retrieveCertificate or a renewing
\* renewCertificate returns nil, the stored account holds the certificate and
\* key bytes that dc.Certificate holds at that moment.
C15_PersistedOnSuccess ==
    [][(backend /= "null" /\ (ObtainSucceeds \/ \E g \in Goroutines : RenewSucceeds(g))) =>
          DurableEqualsMemory'
      ]_vars

\* C16: when CreateConfig returns after register() succeeded on a new account,
\* it has made a saveAccount call, and on a backend that stores the stored
\* account carries the registration.
C16_RegistrationSaved ==
    (pc = "exit" /\ needRegister /\ ~IsNil(account) /\ Deref(account).Registration) =>
        /\ \E i \in 1..Len(calls) : calls[i] = "saveAccount"
        /\ (backend /= "null" /\ ret.status = "nil") =>
               ~IsNil(store[Main]) /\ Deref(store[Main]).Registration

\* a certificate issued by the authority in this run, and an object derived
\* from one
Renewed(c) == ~IsNil(c) /\ Len(Deref(c).Cert.chain) > 0 /\ Deref(c).Cert.chain[1].sn >= 2
RenewedPair(obj) == UsablePair(obj) /\ obj.Certificate[1].sn >= 2

\* C17: a SaveAccount that fails after the certificate was issued and derived
\* makes retrieveCertificate, or renewCertificate, return the error, and
\* leaves dc as it is: dc.Certificate is the issued certificate and
\* dc.TLSCert an object derived from an issued one, which is what the
\* provider returns for the primary domain after a failed save in renew.
C17_SaveFailureSurfaced ==
    [][/\ (pc = "saveAccount" /\ pc' /= "saveAccount" /\ store' = store /\ backend /= "null") =>
              /\ ret' = Returned("error", "saveAccount")
              /\ dc' = dc
              /\ dc.Certificate = certificate
              /\ dc.TLSCert \in 1..Len(tlsHeap)
              /\ tlsHeap[dc.TLSCert] =
                     X509KeyPair(Deref(certificate).Cert, Deref(certificate).PrivateKey)
       /\ \A g \in Goroutines :
              (bg[g].pc = "write" /\ bg'[g].pc /= "write"
                  /\ bg[g].data /= store[Main] /\ store' = store) =>
                 /\ bg'[g] = Idle(After(g), "save")
                 /\ dc' = dc
                 /\ Renewed(dc.Certificate)
                 /\ GetCertificate(Main)'.cert \in 2..Len(tlsHeap)
                 /\ RenewedPair(tlsHeap[GetCertificate(Main)'.cert])
      ]_vars

\* C17 witness: the ticker's renewal failed at the save, the goroutine waits
\* for the next tick and a handshake is served the renewed certificate.
C17_Witness ==
    /\ bg["ticker"].pc = "wait"
    /\ bg["ticker"].err = "save"
    /\ resolved.name = MainDomain
    /\ resolved.cert >= 2
    /\ resolved.cert = dc.TLSCert
    /\ RenewedPair(tlsHeap[resolved.cert])
    /\ Deref(Deref(store[Main]).DomainsCertificate).Certificate /= dc.Certificate

\* the chain in the opposite order
Reversed(chain) == [i \in 1..Len(chain) |-> chain[Len(chain) + 1 - i]]

C19_SaveLoadRoundTrip ==
    [][(api'.op = "LoadAccount" /\ ~api'.err) =>
          /\ (api.op = "SaveAccount" /\ ~api.err
                  /\ Deref(api.args[1].Domain).Main = api'.args[1]) =>
                 /\ ~IsNil(api'.out)
                 /\ Deref(api'.out).dc.Certificate = api.args[1].Certificate
                 /\ Deref(api'.out).dc.Domain = api.args[1].Domain
          /\ api = NoCall => IsNil(api'.out)
      ]_vars

\* C20: with SelfSigned set and a main domain, CreateConfig resolves no
\* backend, makes no LoadAccount, SaveAccount or authority call, creates no
\* account, starts no goroutine and installs no GetCertificate; when it
\* returns nil, tlsConfig.Certificates holds one usable certificate that
\* names the main domain.
C20_SelfSignedTerminal ==
    (cfg.SelfSigned /\ ~IsNil(cfg.Domain) /\ Deref(cfg.Domain).Main /= "") =>
        /\ pc \in {"start", "selfSigned", "exit"}
        /\ backend = ""
        /\ calls = <<>>
        /\ IsNil(account)
        /\ issued = 1
        /\ nRenew = 0
        /\ \A g \in Goroutines : bg[g].pc = "none"
        /\ tickerC = 0
        /\ ~tlsConfig.GetCertificate
        /\ ret.status = "nil" =>
               /\ pc = "exit"
               /\ Len(tlsConfig.Certificates) = 1
               /\ UsablePair(tlsConfig.Certificates[1])
               /\ \E i \in 1..Len(tlsConfig.Certificates[1].DNSNames) :
                      tlsConfig.Certificates[1].DNSNames[i] = Main
        /\ ret.status /= "nil" => tlsConfig.Certificates = <<>>

\* C20 witness: CreateConfig has returned nil in self-signed mode over a
\* store that holds an account.
C20_Witness ==
    /\ cfg.SelfSigned
    /\ ret.status = "nil"
    /\ Len(tlsConfig.Certificates) = 1
    /\ ~IsNil(store[MainDomain])

\* the configuration names no main domain
NoMainDomain == IsNil(cfg.Domain) \/ Deref(cfg.Domain).Main = ""

\* C21: with no main domain CreateConfig resolves no backend, generates no
\* certificate and makes no call, and with an unknown DNS provider name it
\* makes no register, obtainCertificate or saveAccount call; in both cases it
\* returns an error.
C21_InvalidConfigReturnsError ==
    /\ NoMainDomain =>
          /\ backend = ""
          /\ calls = <<>>
          /\ tlsConfig.Certificates = <<>>
          /\ pc = "exit" => ret.status = "error"
    /\ (pc = "exit" /\ ret.at = "dnsProvider" /\ cfg.DNSProvider \notin KnownDNSProviders) =>
          /\ \A i \in 1..Len(calls) :
                calls[i] \notin {"register", "obtainCertificate", "saveAccount"}
          /\ ret.status = "error"

\* the backend name CreateConfig asks for
BackendAsked == IF cfg.BackendName = "" THEN "fs" ELSE cfg.BackendName

\* C22: an empty BackendName resolves the fs backend; a backend is resolved
\* only under its registered name; when the name is unknown or the factory
\* fails CreateConfig returns an error before any LoadAccount or authority
\* call; and GetBackend returns no backend and no error for an unknown name,
\* an error only when a registered factory failed.
C22_BackendResolution ==
    /\ \A name \in BackendNames \cup Backends, ok \in BOOLEAN :
          /\ name \notin Backends => GetBackend(name, ok) = [b |-> "", err |-> FALSE]
          /\ GetBackend(name, ok).err => (name \in {"fs", "s3"} /\ ~ok)
    /\ backend /= "" => (backend = BackendAsked /\ backend \in Backends)
    /\ calls /= <<>> => backend /= ""
    /\ BackendAsked \notin Backends => (backend = "" /\ pc \in {"start", "selfSigned", "initBackend", "exit"})
    /\ ret.at = "initBackend" =>
          /\ ret.status = "error"
          /\ pc = "exit"
          /\ backend = ""
          /\ calls = <<>>
          /\ issued = 1
          /\ nRenew = 0
          /\ IsNil(account)

\* C22 witness: CreateConfig returned the error of an unknown backend name.
C22_Witness ==
    /\ ret = Returned("error", "initBackend")
    /\ cfg.BackendName = "bogus"
    /\ ~cfg.SelfSigned

Called(op) == \E i \in 1..Len(calls) : calls[i] = op

LoadedWithCertificate ==
    /\ ~IsNil(account)
    /\ ~needRegister
    /\ Deref(account).hasDC
    /\ ~IsNil(dc.Certificate)

\* C24: a loaded account comes with no TLS object; Init derives it from the
\* stored certificate and key bytes before CreateConfig goes on, so before a
\* goroutine is started or GetCertificate installed; and when the bytes are
\* no valid pair CreateConfig returns the error of Init having called only
\* LoadAccount.
C24_TLSRebuiltFromStorage ==
    LoadedWithCertificate =>
        /\ pc = "haveAccount" => (dc.TLSCert = 0 /\ tlsHeap = <<>>)
        /\ pc \in {"buildClient", "dnsProvider", "branch"} =>
               /\ dc.Certificate = Deref(Deref(store[Main]).DomainsCertificate).Certificate
               /\ dc.TLSCert = 1
               /\ tlsHeap = <<X509KeyPair(Deref(dc.Certificate).Cert,
                                          Deref(dc.Certificate).PrivateKey)>>
               /\ UsablePair(tlsHeap[1])
        /\ (Installed \/ \E g \in Goroutines : bg[g].pc /= "none") =>
               /\ dc.TLSCert >= 1
               /\ UsablePair(tlsHeap[1])
        /\ dc.TLSCert = 0 =>
               /\ pc \in {"haveAccount", "exit"}
               /\ pc = "exit" =>
                      /\ ret = Returned("error", "init")
                      /\ ~X509KeyPairOk(Deref(dc.Certificate).Cert,
                                        Deref(dc.Certificate).PrivateKey)
                      /\ calls = <<"loadAccount">>
                      /\ issued = 1
                      /\ nRenew = 0
                      /\ store[Main] = Some(File(Deref(account).Registration,
                                                 Some(StoredDC(dc.Certificate, dc.Domain))))

\* C24 witness: the stored key bytes do not parse and CreateConfig returned
\* the error of Init.
C24_Witness ==
    /\ LoadedWithCertificate
    /\ ret = Returned("error", "init")
    /\ Deref(dc.Certificate).PrivateKey = GarbageKey

\* C25: once the catch-up goroutine is started CreateConfig goes straight to
\* the installation of GetCertificate and the start of the ticker; each of
\* these steps can be taken whatever the goroutine is doing, with no tick
\* needed, and the result is nil whatever the catch-up renewal returned.
C25_ReturnsWithoutWaiting ==
    bg["catchup"].pc /= "none" =>
        /\ pc \in {"install", "startTicker", "exit"}
        /\ ~Called("obtainCertificate")
        /\ pc = "install" => ENABLED InstallGetCertificate
        /\ pc = "startTicker" => (tickerC = 0 /\ ENABLED StartTicker)
        /\ pc = "exit" => ret = Returned("nil", "")

\* C25 witness: CreateConfig has returned nil at day 0 and the catch-up
\* goroutine has not yet made its first step.
C25_Witness ==
    /\ ret = Returned("nil", "")
    /\ now = 0
    /\ bg["catchup"].pc = "check"

\* C26: once GetCertificate is installed a resolve call can be made in every
\* state, also while a renewal holds the storage lock; the call changes
\* nothing but its own result (no request, no save, the account, dc, the TLS
\* objects and the store stay as they are), and what GetCertificate answers
\* for any server name is the same after the call as before it.
C26_ResolveNoSideEffect ==
    /\ [](Installed => ENABLED Resolve)
    /\ [][resolved' /= resolved =>
            /\ Installed
            /\ UNCHANGED <<mainVars, bg, tickerC, nRenew, api>>
            /\ \A n \in ServerNames : GetCertificate(n)' = GetCertificate(n)
         ]_vars

\* C26 witness: a handshake for an unknown name was refused, the storage lock
\* is held by a renewal and a TLS object is there to be served.
C26_Witness ==
    /\ resolved.err /= ""
    /\ \E g \in Goroutines : bg[g].pc = "write"
    /\ GetCertificate(MainDomain).cert /= 0

\* position of the first call of op in the calls of CreateConfig, 0 if none
FirstCall(op) ==
    IF Called(op) THEN CHOOSE i \in 1..Len(calls) :
                           calls[i] = op /\ \A j \in 1..(i - 1) : calls[j] /= op
    ELSE 0

\* C27: when the authority reports failures retrieveCertificate returns the
\* error with AddCertificate and SaveAccount not called and dc, the TLS
\* objects and the store as they were; otherwise the order is issuance,
\* AddCertificate, SaveAccount, and SaveAccount is called only when
\* AddCertificate derived the TLS object from the issued bytes.
C27_ObtainFailureLeavesState ==
    /\ ret.at = "obtainCertificate" =>
          /\ ret.status = "error"
          /\ pc = "exit"
          /\ ~Called("addCertificate")
          /\ ~Called("saveAccount")
          /\ IsNil(certificate)
          /\ dc = NewAccountDC(cfg.Domain)
          /\ tlsHeap = <<>>
          /\ IsNil(store[Main])
          /\ \A g \in Goroutines : bg[g].pc = "none"
    /\ Called("addCertificate") =>
          /\ 0 < FirstCall("obtainCertificate")
          /\ FirstCall("obtainCertificate") < FirstCall("addCertificate")
          /\ ~IsNil(certificate)
    /\ ret.at = "addCertificate" =>
          /\ ret.status = "error"
          /\ ~Called("saveAccount")
          /\ ~X509KeyPairOk(Deref(certificate).Cert, Deref(certificate).PrivateKey)
          /\ IsNil(store[Main])
    /\ Called("saveAccount") =>
          /\ 0 < FirstCall("addCertificate")
          /\ FirstCall("addCertificate") < FirstCall("saveAccount")
          /\ X509KeyPairOk(Deref(certificate).Cert, Deref(certificate).PrivateKey)
          /\ Len(tlsHeap) >= 1
          /\ tlsHeap[1] = X509KeyPair(Deref(certificate).Cert, Deref(certificate).PrivateKey)

\* C27 witness: the authority reported failures and CreateConfig returned the
\* error of retrieveCertificate.
C27_Witness ==
    /\ ret = Returned("error", "obtainCertificate")
    /\ calls = <<"loadAccount", "register", "agreeToTerms", "obtainCertificate">>

\* CreateConfig has taken one of the two branches of acme.go:210-222
PastBranch ==
    \/ pc \in {"obtain", "addCertificate", "saveAccount", "install", "startTicker"}
    \/ Called("install")
    \/ ret.at \in {"obtainCertificate", "addCertificate", "saveAccount"}

\* C28: obtainCertificate is called only in a run where LoadAccount found no
\* account, and in every such run that comes to the branch; a run that found
\* an account starts the catch-up goroutine there instead; and an account
\* found with empty certificate or key bytes does not come to the branch:
\* CreateConfig returns the error of Init.
C28_ObtainOnlyForNewAccount ==
    /\ needRegister => (backend \in {"fs", "s3"} /\ (IsNil(store[Main]) \/ Called("saveAccount")))
    /\ (pc = "obtain" \/ Called("obtainCertificate")) => needRegister
    /\ PastBranch =>
          /\ needRegister <=> (pc = "obtain" \/ Called("obtainCertificate"))
          /\ ~needRegister <=> bg["catchup"].pc /= "none"
    /\ (LoadedWithCertificate /\ ~HasCertificate(dc)) =>
          /\ pc \in {"haveAccount", "exit"}
          /\ pc = "exit" => ret = Returned("error", "init")
          /\ domains = <<>>
          /\ tlsHeap = <<>>

\* LoadAccount returned no account in this run
NotFoundReported == pc = "noAccount" \/ ret.at = "newAccount" \/ needRegister

\* C28 as stated: in every finished run that called LoadAccount,
\* obtainCertificate was called if and only if LoadAccount found no account.
C28_ObtainIffNotFound ==
    (pc = "exit" /\ Called("loadAccount")) =>
        (Called("obtainCertificate") <=> NotFoundReported)

\* C28 witness: the stored account has empty certificate and key bytes and
\* CreateConfig returned the error of Init.
C28_Witness ==
    /\ LoadedWithCertificate
    /\ Deref(dc.Certificate) = EmptyCertificate
    /\ ret = Returned("error", "init")

\* goroutine g moves to label l in this step
Enters(g, l) == bg[g].pc /= l /\ bg'[g].pc = l

\* C29: the store is written only by retrieveCertificate right after
\* obtainCertificate and AddCertificate succeeded, or by a renewCertificate
\* call that came to SaveAccount straight from publishing the object it
\* derived from the certificate it was issued; the call returns after one
\* SaveAccount, failed or not; register and agreeToTerms write nothing; and
\* after a failed save, a renewCertificate call that finds the certificate in
\* memory fresh returns without saving or sending anything.
C29_SaveOnlyAfterIssuance ==
    [][/\ store' /= store =>
             \/ /\ pc = "saveAccount"
                /\ SubSeq(calls', Len(calls') - 2, Len(calls')) =
                       <<"obtainCertificate", "addCertificate", "saveAccount">>
                /\ tlsHeap[dc.TLSCert] =
                       X509KeyPair(Deref(certificate).Cert, Deref(certificate).PrivateKey)
             \/ \E g \in Goroutines : bg[g].pc = "write" /\ bg'[g] = Idle(After(g), "")
       /\ \A g \in Goroutines :
             /\ Enters(g, "save") =>
                    /\ bg[g].pc = "publish"
                    /\ ~IsNil(bg[g].renewedCert)
                    /\ UsablePair(tlsHeap[bg[g].tlsCert])
                    /\ dc'.TLSCert = bg[g].tlsCert
             /\ Enters(g, "write") => bg[g].pc = "save"
             /\ (bg[g].pc = "write" /\ bg'[g] /= bg[g]) =>
                    \/ bg'[g] = Idle(After(g), "")
                    \/ bg'[g] = Idle(After(g), "save") /\ store' = store
             /\ (/\ bg[g].pc = "check"
                 /\ bg'[g] /= bg[g]
                 /\ \E h \in Goroutines : bg[h].err = "save"
                 /\ Fresh(tlsHeap[dc.TLSCert], now)) =>
                    /\ bg'[g] = Idle(After(g), "")
                    /\ store' = store
                    /\ nRenew' = nRenew
       /\ (calls' /= calls /\ calls'[Len(calls')] \in {"register", "agreeToTerms"}) =>
             store' = store
      ]_vars

\* C29 witness: the save of the catch-up renewal failed, the ticker's
\* renewCertificate call of a later day found the certificate fresh and
\* returned, and the stored certificate is still the earlier one.
C29_Witness ==
    /\ bg["catchup"].pc = "done"
    /\ bg["catchup"].err = "save"
    /\ now >= 1
    /\ tickerC = 0
    /\ bg["ticker"].pc = "wait"
    /\ bg["ticker"].err = ""
    /\ nRenew = 1
    /\ Fresh(tlsHeap[dc.TLSCert], now)
    /\ Deref(Deref(store[Main]).DomainsCertificate).Certificate = Some(StoredCert(3))

\* the certificate of the stored account
StoredCertificate == Deref(Deref(Deref(store[Main]).DomainsCertificate).Certificate)

\* C30: once dc has a TLS object, the stored account, if there is one, holds
\* certificate and key bytes from which a TLS object can be derived.
C30_DurableCopyUsable ==
    (dc.TLSCert >= 1 /\ ~IsNil(store[Main])) =>
        X509KeyPairOk(StoredCertificate.Cert, StoredCertificate.PrivateKey)

\* goroutine g is inside a renewCertificate call
InRenew(g) == bg[g].pc \notin {"none", "wait", "done"}

\* C31: a renewCertificate call of the ticker goroutine begins only by
\* taking a tick while the goroutine waits, that is after its previous call
\* returned, and a tick that arrives during a call stays in the channel; the
\* catch-up goroutine is started only by the branch of CreateConfig, once,
\* and when its call has returned it makes no other step.
C31_TickerRenewsSequential ==
    [][/\ (~InRenew("ticker") /\ InRenew("ticker")') =>
             /\ bg["ticker"].pc = "wait"
             /\ bg'["ticker"].pc = "check"
             /\ tickerC = 1
             /\ tickerC' = 0
       /\ (InRenew("ticker") /\ bg'["ticker"] /= bg["ticker"]) =>
             /\ bg'["ticker"].pc /= "none"
             /\ bg'["ticker"].pc = "check" => bg["ticker"].pc = "check"
       /\ (InRenew("ticker") /\ tickerC' /= tickerC) => tickerC' = 1
       /\ (~InRenew("catchup") /\ InRenew("catchup")') =>
             /\ pc = "branch"
             /\ bg["catchup"].pc = "none"
             /\ bg'["catchup"].pc = "check"
       /\ bg["catchup"].pc /= "none" => bg'["catchup"].pc /= "none"
       /\ bg["catchup"].pc = "done" => bg'["catchup"] = bg["catchup"]
       /\ bg["ticker"].pc /= "none" => bg'["ticker"].pc /= "none"
      ]_vars

\* C31 witness: the ticker's call and the catch-up call both wait for the
\* authority, and the tick of the next day is in the channel, not taken.
C31_Witness ==
    /\ bg["ticker"].pc = "renewing"
    /\ bg["catchup"].pc = "renewing"
    /\ tickerC = 1
    /\ now = 2

\* C32: an account that LoadAccount returned has a DomainsCertificate with a
\* Certificate, and the Init call on it ends with a TLS object or with a
\* returned error, not with a panic.
C32_LoadedAccountHasCertificate ==
    /\ (~IsNil(account) /\ ~needRegister) =>
          /\ Deref(account).hasDC
          /\ ~IsNil(dc.Certificate)
    /\ ret.at = "init" => ret.status = "error"

====
